---------------------------- MODULE Spec2Model ----------------------------
(***************************************************************************)
(* Model of the mp3lame-encoder binding layer (src/src/lib.rs,             *)
(* src/src/input.rs): the Builder -> Encoder handle lifecycle over native  *)
(* LAME contexts, the ID3 tag writer, the *_to_vec helpers and the sizing  *)
(* helper.  The native library is a black box: every native call returns a *)
(* status chosen nondeterministically from a small set of codes.           *)
(***************************************************************************)
EXTENDS Integers, Sequences, FiniteSets, TLC

(***************************************************************************)
(* Bounds of the model.                                                    *)
(***************************************************************************)
\* Width of usize in bits, scaled down from 32/64 so that the whole range
\* can be enumerated; it must stay wide enough to hold FRAME_SLACK.
UsizeBits == 14
\* Number of native contexts lame_init can hand out.
MaxCtx == 2
\* Number of encode_to_vec / flush_to_vec calls made on the vector.
MaxVecOps == 2
\* Number of threads that share one Encoder.
MaxThreads == 2
\* Native status codes -MaxCode .. MaxCode are enumerated one by one.
MaxCode == 16

Pow2(k) == 2 ^ k
USIZE_MAX == Pow2(UsizeBits) - 1
\* A Vec or slice never holds more than isize::MAX bytes.
ISIZE_MAX == Pow2(UsizeBits - 1) - 1
\* c_int is narrower than usize, as on 64-bit targets.
CIntBits == UsizeBits - 2
C_INT_MAX == Pow2(CIntBits - 1) - 1
C_INT_MIN == 0 - Pow2(CIntBits - 1)

\* `x as c_int` for a usize x: keep the low CIntBits bits, two's complement.
as_c_int(x) ==
    LET m == x % Pow2(CIntBits)
    IN  IF m > C_INT_MAX THEN m - Pow2(CIntBits) ELSE m

Min(a, b) == IF a < b THEN a ELSE b

\* usize::wrapping_add / usize::saturating_add
wrapping_add(a, b) == (a + b) % (USIZE_MAX + 1)
saturating_add(a, b) == IF a + b > USIZE_MAX THEN USIZE_MAX ELSE a + b

(***************************************************************************)
(* Program constants.                                                      *)
(***************************************************************************)
MAX_ALBUM_ART_SIZE == 128 * 1024
MAX_BUFFER == 250
FRAME_SLACK == 7200

(***************************************************************************)
(* Sizing helper: max_required_buffer_size                                 *)
(***************************************************************************)
\* Faulty variant: the remainder is not rounded up (floor instead of ceil).
max_required_buffer_size_floor(sample_number) ==
    wrapping_add(wrapping_add(sample_number, sample_number \div 4), FRAME_SLACK)

max_required_buffer_size(sample_number) ==
    LET quarter == sample_number \div 4
        sample_extra_size == IF (sample_number % 4) > 0
                             THEN wrapping_add(quarter, 1)
                             ELSE quarter
    IN  wrapping_add(wrapping_add(sample_number, sample_extra_size), FRAME_SLACK)

(***************************************************************************)
(* Error model                                                             *)
(***************************************************************************)
Ok(v) == [kind |-> "Ok", val |-> v]
Err(k) == [kind |-> k, val |-> 0]
Other(code) == [kind |-> "Other", val |-> code]
NoResult == [kind |-> "None", val |-> 0]

\* Faulty variant: the arms of NoMem and BadBRate are exchanged.
BuildError_from_c_int_swapped(code) ==
    IF code >= 0 THEN Ok(0)
    ELSE CASE code = -1  -> Err("Generic")
           [] code = -10 -> Err("BadBRate")
           [] code = -11 -> Err("NoMem")
           [] code = -12 -> Err("BadSampleFreq")
           [] code = -13 -> Err("InternalError")
           [] OTHER      -> Other(code)

BuildError_from_c_int(code) ==
    IF code >= 0 THEN Ok(0)
    ELSE CASE code = -1  -> Err("Generic")
           [] code = -10 -> Err("NoMem")
           [] code = -11 -> Err("BadBRate")
           [] code = -12 -> Err("BadSampleFreq")
           [] code = -13 -> Err("InternalError")
           [] OTHER      -> Other(code)

\* Faulty variant: a status of zero is not a success.
EncodeError_from_c_int_positive(code) ==
    IF code > 0 THEN Ok(code)
    ELSE CASE code = -1 -> Err("BufferTooSmall")
           [] code = -2 -> Err("NoMem")
           [] code = -3 -> Err("InvalidState")
           [] code = -4 -> Err("PsychoAcoustic")
           [] OTHER     -> Other(code)

EncodeError_from_c_int(code) ==
    IF code >= 0 THEN Ok(code)
    ELSE CASE code = -1 -> Err("BufferTooSmall")
           [] code = -2 -> Err("NoMem")
           [] code = -3 -> Err("InvalidState")
           [] code = -4 -> Err("PsychoAcoustic")
           [] OTHER     -> Other(code)

\* Status codes the native configuration calls may return.
BuildCodes == {-14, -13, -12, -11, -10, -1, 0, 1}
\* Status codes the native encode/flush calls may return.
EncodeCodes == {-5, -4, -3, -2, -1, 0, 1, 2, C_INT_MAX}
\* Every status around zero, and the two ends of c_int.
StatusCodes == (-MaxCode .. MaxCode) \cup {C_INT_MIN, C_INT_MAX}


(***************************************************************************)
(* State                                                                   *)
(***************************************************************************)
VARIABLES
    debug_assertions, \* build profile: are debug_assert!s compiled in
    allocated,        \* contexts lame_init has returned so far
    builders,         \* contexts whose owner is a live Builder handle
    encoders,         \* contexts whose owner is a live Encoder handle
    closes,           \* per context: number of lame_close calls issued on it
    failed,           \* ghost: contexts whose Builder::build returned an error
    flush_state,      \* ghost, per live Encoder: "fresh", "flushed" (one flush so
                      \* far, nothing after it), "reused" (encode or flush after a flush)
    op,               \* the last operation: name, context, input, native code, result
    calls,            \* the native calls the last operation issued, in order
    vec_len,          \* output Vec<u8>: len()
    vec_cap,          \* output Vec<u8>: capacity()
    vec_init_len,     \* ghost: len() of the vector before the first *_to_vec call
    vec_sum,          \* ghost: sum of the Ok(written) values returned by *_to_vec
    vec_ops,          \* ghost: number of *_to_vec calls made
    vec_honest,       \* ghost: no native call of a *_to_vec call has returned more
                      \* than the capacity it was passed
    sample_number,    \* argument of max_required_buffer_size
    size,             \* its result, -1 before the call
    borrow,           \* per thread and context: the reference to the Encoder the
                      \* thread holds: "none", "&self" or "&mut self"
    running           \* per thread: the Encoder method it is inside, with the
                      \* native call in progress

lifeVars == <<allocated, builders, encoders, closes, failed, flush_state>>
vecVars == <<vec_len, vec_cap, vec_init_len, vec_sum, vec_ops, vec_honest>>
sizeVars == <<sample_number, size>>
threadVars == <<borrow, running>>
vars == <<debug_assertions, allocated, builders, encoders, closes, failed, flush_state, op, calls,
          vec_len, vec_cap, vec_init_len, vec_sum, vec_ops, vec_honest, sample_number, size,
          borrow, running>>

NULL == 0
Ctx == 1 .. MaxCtx

\* One native call: entry point, context pointer, remaining arguments.
NCall(fn, c, args) == [fn |-> fn, ctx |-> c, args |-> args]

\* Number of calls of entry point fn on context c within the sequence cs.
Count(cs, fn, c) ==
    Cardinality({i \in DOMAIN cs : cs[i].fn = fn /\ cs[i].ctx = c})

\* The operation issued the native calls cs: they become the call log of the
\* operation, and every lame_close among them is counted on its context.
Issue(cs) ==
    /\ calls' = cs
    /\ closes' = [x \in Ctx |-> closes[x] + Count(cs, "lame_close", x)]

Done(name, c, input, code, result) ==
    op' = [name |-> name, ctx |-> c, input |-> input, code |-> code, result |-> result]

(***************************************************************************)
(* Builder                                                                 *)
(***************************************************************************)
\* Faulty variant: a null context is handed to lame_close.
New_close_null ==
    \E p \in {NULL} \cup (Ctx \ allocated) :
        /\ IF p = NULL
           THEN /\ Issue(<<NCall("lame_init", p, <<>>), NCall("lame_close", p, <<>>)>>)
                /\ Done("new", NULL, <<>>, 0, NoResult)
                /\ UNCHANGED <<allocated, builders>>
           ELSE /\ Issue(<<NCall("lame_init", p, <<>>)>>)
                /\ Done("new", p, <<>>, 0, Ok(0))
                /\ allocated' = allocated \cup {p}
                /\ builders' = builders \cup {p}
        /\ UNCHANGED <<failed, flush_state, encoders, debug_assertions, vecVars, sizeVars, threadVars>>

\* Builder::new: lame_init returns NULL or a fresh context.
New ==
    \E p \in {NULL} \cup (Ctx \ allocated) :
        /\ Issue(<<NCall("lame_init", p, <<>>)>>)
        /\ IF p = NULL
           THEN /\ Done("new", NULL, <<>>, 0, NoResult)
                /\ UNCHANGED <<allocated, builders>>
           ELSE /\ Done("new", p, <<>>, 0, Ok(0))
                /\ allocated' = allocated \cup {p}
                /\ builders' = builders \cup {p}
        /\ UNCHANGED <<failed, flush_state, encoders, debug_assertions, vecVars, sizeVars, threadVars>>

\* Faulty variant: the destructor forgets to release the context.
Drop_Builder_leak(c) == <<>>

\* impl Drop for Builder: the native calls the destructor issues.
Drop_Builder(c) == <<NCall("lame_close", c, <<>>)>>

\* Faulty variant: the destructor forgets to release the context.
Drop_Encoder_leak(c) == <<>>

\* impl Drop for Encoder
Drop_Encoder(c) == <<NCall("lame_close", c, <<>>)>>

\* The parameter setters and the native entry point each one calls.
Setters == {"sample_rate", "num_channels", "brate", "mode", "quality",
            "vbr_quality", "to_write_vbr_tag", "vbr_mode"}

SetterFn(s) ==
    CASE s = "sample_rate"      -> "lame_set_in_samplerate"
      [] s = "num_channels"     -> "lame_set_num_channels"
      [] s = "brate"            -> "lame_set_brate"
      [] s = "mode"             -> "lame_set_mode"
      [] s = "quality"          -> "lame_set_quality"
      [] s = "vbr_quality"      -> "lame_set_VBR_q"
      [] s = "to_write_vbr_tag" -> "lame_set_bWriteVbrTag"
      [] s = "vbr_mode"         -> "lame_set_VBR"

\* Values handed to a setter.
SetterVals == {0, 1}

\* Builder::set_X(v): one native call, its status classified.
Builder_set(c, s, v, code) ==
    [calls  |-> <<NCall(SetterFn(s), c, <<v>>)>>,
     result |-> BuildError_from_c_int(code)]

\* Faulty variant: the error of set_X is dropped and the Builder returned.
Builder_with_ignores_error(c, s, v, code) ==
    [calls |-> Builder_set(c, s, v, code).calls, result |-> Ok(0), kept |-> TRUE]

\* Builder::with_X(self, v): set_X(v)?; Ok(self).  On the error path self is
\* dropped.
Builder_with(c, s, v, code) ==
    LET r == Builder_set(c, s, v, code)
    IN  IF r.result.kind = "Ok"
        THEN [calls |-> r.calls, result |-> r.result, kept |-> TRUE]
        ELSE [calls |-> r.calls \o Drop_Builder(c), result |-> r.result, kept |-> FALSE]

Set(c, vals, codes) ==
    /\ c \in builders
    /\ \E s \in Setters, v \in vals, code \in codes :
          LET r == Builder_set(c, s, v, code)
          IN  /\ Issue(r.calls)
              /\ Done("set_" \o s, c, <<v>>, code, r.result)
    /\ UNCHANGED <<failed, flush_state, allocated, builders, encoders, debug_assertions, vecVars, sizeVars, threadVars>>

With(c, vals, codes) ==
    /\ c \in builders
    /\ \E s \in Setters, v \in vals, code \in codes :
          LET r == Builder_with(c, s, v, code)
          IN  /\ Issue(r.calls)
              /\ Done("with_" \o s, c, <<v>>, code, r.result)
              /\ builders' = IF r.kept THEN builders ELSE builders \ {c}
    /\ UNCHANGED <<failed, flush_state, allocated, encoders, debug_assertions, vecVars, sizeVars, threadVars>>

\* Faulty variant: build returns the Encoder without mem::forget(self).
Builder_build_noforget(c, code) ==
    LET res == BuildError_from_c_int(code)
        init == <<NCall("lame_init_params", c, <<>>)>>
    IN  [calls |-> init \o Drop_Builder(c), result |-> res,
         encoder |-> res.kind = "Ok"]

\* Builder::build(self): lame_init_params, then either the Encoder takes the
\* pointer and self is forgotten, or self is dropped.
Builder_build(c, code) ==
    LET res == BuildError_from_c_int(code)
        init == <<NCall("lame_init_params", c, <<>>)>>
    IN  IF res.kind = "Ok"
        THEN [calls |-> init, result |-> res, encoder |-> TRUE]
        ELSE [calls |-> init \o Drop_Builder(c), result |-> res, encoder |-> FALSE]

Build(c, codes) ==
    /\ c \in builders
    /\ \E code \in codes :
          LET r == Builder_build(c, code)
          IN  /\ Issue(r.calls)
              /\ Done("build", c, <<>>, code, r.result)
              /\ builders' = builders \ {c}
              /\ encoders' = IF r.encoder THEN encoders \cup {c} ELSE encoders
              /\ failed' = IF r.result.kind = "Ok" THEN failed ELSE failed \cup {c}
    /\ UNCHANGED <<allocated, flush_state, debug_assertions, vecVars, sizeVars, threadVars>>

\* The owner lets its Builder go out of scope.
DropBuilder(c) ==
    /\ c \in builders
    /\ Issue(Drop_Builder(c))
    /\ Done("drop_builder", c, <<>>, 0, NoResult)
    /\ builders' = builders \ {c}
    /\ UNCHANGED <<failed, flush_state, allocated, encoders, debug_assertions, vecVars, sizeVars, threadVars>>

\* The owner lets its Encoder go out of scope.
DropEncoder(c) ==
    /\ c \in encoders
    /\ Issue(Drop_Encoder(c))
    /\ Done("drop_encoder", c, <<>>, 0, NoResult)
    /\ encoders' = encoders \ {c}
    /\ flush_state' = [flush_state EXCEPT ![c] = "fresh"]
    /\ UNCHANGED <<failed, allocated, builders, debug_assertions, vecVars, sizeVars, threadVars>>

\* encoder(): Builder::new, then set_brate(Kbps192)?, set_quality(Best)? and
\* build() on the Builder, whose context is p; a `?` that returns early drops
\* the Builder.  Without a Builder the error is NoMem.
encoder(p, code_brate, code_quality, code_build) ==
    LET init == <<NCall("lame_init", p, <<>>)>>
        b == Builder_set(p, "brate", 192, code_brate)
        q == Builder_set(p, "quality", 0, code_quality)
        e == Builder_build(p, code_build)
    IN  IF p = NULL
        THEN [calls |-> init, result |-> Err("NoMem"), code |-> 0,
              encoder |-> FALSE, built |-> FALSE]
        ELSE IF b.result.kind # "Ok"
        THEN [calls |-> init \o b.calls \o Drop_Builder(p), result |-> b.result,
              code |-> code_brate, encoder |-> FALSE, built |-> FALSE]
        ELSE IF q.result.kind # "Ok"
        THEN [calls |-> init \o b.calls \o q.calls \o Drop_Builder(p),
              result |-> q.result, code |-> code_quality,
              encoder |-> FALSE, built |-> FALSE]
        ELSE [calls |-> init \o b.calls \o q.calls \o e.calls, result |-> e.result,
              code |-> code_build, encoder |-> e.encoder, built |-> TRUE]

DefaultEncoder(codes) ==
    /\ \E p \in {NULL} \cup (Ctx \ allocated),
          code_brate \in codes, code_quality \in codes, code_build \in codes :
          LET r == encoder(p, code_brate, code_quality, code_build)
          IN  /\ Issue(r.calls)
              /\ Done("encoder", p, <<>>, r.code, r.result)
              /\ allocated' = IF p = NULL THEN allocated ELSE allocated \cup {p}
              /\ encoders' = IF r.encoder THEN encoders \cup {p} ELSE encoders
              /\ failed' = IF r.built /\ ~r.encoder THEN failed \cup {p} ELSE failed
    /\ UNCHANGED <<flush_state, builders, debug_assertions, vecVars, sizeVars, threadVars>>

(***************************************************************************)
(* Tag writer                                                              *)
(***************************************************************************)
\* An Id3Tag is modelled by the lengths of its six byte slices.
TextLens == {0, 1, MAX_BUFFER + 1}
ArtLens == {0, MAX_ALBUM_ART_SIZE, MAX_ALBUM_ART_SIZE + 1}
Id3Tag == [title : TextLens, artist : TextLens, album : TextLens,
           album_art : ArtLens, year : TextLens, comment : TextLens]

\* let mut buffer = [0u8; MAX_BUFFER + 1]
BufferLen == MAX_BUFFER + 1

\* Id3Tag::is_any_set
is_any_set(value) ==
    \/ value.title # 0
    \/ value.artist # 0
    \/ value.album # 0
    \/ value.album_art # 0
    \/ value.year # 0
    \/ value.comment # 0

\* Faulty variant: the copy is capped at the buffer's length instead of MAX_BUFFER.
stage_text_offbyone(fn, c, len) ==
    IF len # 0
    THEN LET sz == Min(BufferLen, len) IN <<NCall(fn, c, <<sz, sz>>)>>
    ELSE <<>>

\* One text field of set_id3_tag: if it is not empty, copy
\* min(MAX_BUFFER, len) bytes into the scratch buffer, write 0 at that index
\* and call the native setter.  The call's arguments record the number of
\* bytes copied and the index of the terminating zero.
stage_text(fn, c, len) ==
    IF len # 0
    THEN LET sz == Min(MAX_BUFFER, len) IN <<NCall(fn, c, <<sz, sz>>)>>
    ELSE <<>>

\* Faulty variant: the album art ceiling is compared with >= instead of >.
album_art_overflow_ge(sz) == sz >= MAX_ALBUM_ART_SIZE

\* if size > MAX_ALBUM_ART_SIZE
album_art_overflow(sz) == sz > MAX_ALBUM_ART_SIZE

\* Faulty variant: the text setters are called in the order of the fields'
\* declaration (artist before album).
Builder_set_id3_tag_declared_order(c, value) ==
    IF ~is_any_set(value)
    THEN [calls |-> <<>>, result |-> Ok(0)]
    ELSE LET init == <<NCall("id3tag_init", c, <<>>), NCall("id3tag_add_v2", c, <<>>)>>
         IN  IF value.album_art # 0 /\ album_art_overflow(value.album_art)
             THEN [calls |-> init, result |-> Err("AlbumArtOverflow")]
             ELSE [calls |-> init
                             \o (IF value.album_art # 0
                                 THEN <<NCall("id3tag_set_albumart", c, <<value.album_art>>)>>
                                 ELSE <<>>)
                             \o stage_text("id3tag_set_title", c, value.title)
                             \o stage_text("id3tag_set_artist", c, value.artist)
                             \o stage_text("id3tag_set_album", c, value.album)
                             \o stage_text("id3tag_set_year", c, value.year)
                             \o stage_text("id3tag_set_comment", c, value.comment),
                   result |-> Ok(0)]

\* Faulty variant: an empty tag still initialises the native tag subsystem.
Builder_set_id3_tag_noskip(c, value) ==
    LET init == <<NCall("id3tag_init", c, <<>>), NCall("id3tag_add_v2", c, <<>>)>>
    IN  IF value.album_art # 0 /\ album_art_overflow(value.album_art)
        THEN [calls |-> init, result |-> Err("AlbumArtOverflow")]
        ELSE [calls |-> init
                        \o (IF value.album_art # 0
                            THEN <<NCall("id3tag_set_albumart", c, <<value.album_art>>)>>
                            ELSE <<>>)
                        \o stage_text("id3tag_set_title", c, value.title)
                        \o stage_text("id3tag_set_album", c, value.album)
                        \o stage_text("id3tag_set_artist", c, value.artist)
                        \o stage_text("id3tag_set_year", c, value.year)
                        \o stage_text("id3tag_set_comment", c, value.comment),
              result |-> Ok(0)]

\* Builder::set_id3_tag
Builder_set_id3_tag(c, value) ==
    IF ~is_any_set(value)
    THEN [calls |-> <<>>, result |-> Ok(0)]
    ELSE LET init == <<NCall("id3tag_init", c, <<>>), NCall("id3tag_add_v2", c, <<>>)>>
         IN  IF value.album_art # 0 /\ album_art_overflow(value.album_art)
             THEN [calls |-> init, result |-> Err("AlbumArtOverflow")]
             ELSE [calls |-> init
                             \o (IF value.album_art # 0
                                 THEN <<NCall("id3tag_set_albumart", c, <<value.album_art>>)>>
                                 ELSE <<>>)
                             \o stage_text("id3tag_set_title", c, value.title)
                             \o stage_text("id3tag_set_album", c, value.album)
                             \o stage_text("id3tag_set_artist", c, value.artist)
                             \o stage_text("id3tag_set_year", c, value.year)
                             \o stage_text("id3tag_set_comment", c, value.comment),
                   result |-> Ok(0)]

\* Builder::with_id3_tag(self, value): set_id3_tag(value)?; Ok(self)
Builder_with_id3_tag(c, value) ==
    LET r == Builder_set_id3_tag(c, value)
    IN  IF r.result.kind = "Ok"
        THEN [calls |-> r.calls, result |-> r.result, kept |-> TRUE]
        ELSE [calls |-> r.calls \o Drop_Builder(c), result |-> r.result, kept |-> FALSE]

\* What id3tag_set_albumart may return: 0, or -1 when it does not accept the
\* image.  The other id3tag_* entry points return nothing.
ArtCodes == {-1, 0}

\* The statuses the native library may report to a set_id3_tag that issued
\* the calls cs: the one of id3tag_set_albumart, if it was called.
TagStatuses(cs) ==
    IF \E i \in DOMAIN cs : cs[i].fn = "id3tag_set_albumart" THEN ArtCodes ELSE {0}

SetId3Tag(c, tags) ==
    /\ c \in builders
    /\ \E value \in tags :
          LET r == Builder_set_id3_tag(c, value)
          IN  /\ Issue(r.calls)
              /\ \E art_code \in TagStatuses(r.calls) :
                    Done("set_id3_tag", c, value, art_code, r.result)
    /\ UNCHANGED <<failed, flush_state, allocated, builders, encoders, debug_assertions, vecVars, sizeVars, threadVars>>

WithId3Tag(c, tags) ==
    /\ c \in builders
    /\ \E value \in tags :
          LET r == Builder_with_id3_tag(c, value)
          IN  /\ Issue(r.calls)
              /\ \E art_code \in TagStatuses(r.calls) :
                    Done("with_id3_tag", c, value, art_code, r.result)
              /\ builders' = IF r.kept THEN builders ELSE builders \ {c}
    /\ UNCHANGED <<failed, flush_state, allocated, encoders, debug_assertions, vecVars, sizeVars, threadVars>>

(***************************************************************************)
(* Input abstraction (src/src/input.rs)                                    *)
(***************************************************************************)
\* Largest slice length of a PCM input.
MaxSamples == 2
SampleLens == 0 .. MaxSamples

\* A PCM input is its layout and the lengths of its slices (right is used by
\* DualPcm only).
PcmInputs ==
    [layout : {"Mono", "Interleaved"}, left : SampleLens, right : {0}]
        \cup [layout : {"Dual"}, left : SampleLens, right : SampleLens]

\* Slice lengths on both sides of c_int::MAX, up to the longest slice of
\* two-byte samples the address space holds.
WideLens == SampleLens \cup {C_INT_MAX, C_INT_MAX + 1, ISIZE_MAX \div 2}
WideInputs ==
    [layout : {"Mono", "Interleaved"}, left : WideLens, right : {0}]
        \cup [layout : {"Dual"}, left : WideLens, right : WideLens]

\* The sample count each layout computes.
samples_num(input) ==
    CASE input.layout = "Mono"        -> input.left
      [] input.layout = "Dual"        -> Min(input.left, input.right)
      [] input.layout = "Interleaved" -> input.left \div 2

\* Faulty variant: the layouts assert nothing.
debug_assert_holds_always(input) == TRUE

\* debug_assert_eq!(...) of the layout.
debug_assert_holds(input) ==
    CASE input.layout = "Mono"        -> TRUE
      [] input.layout = "Dual"        -> input.left = input.right
      [] input.layout = "Interleaved" -> input.left % 2 = 0

EncodeFn(input) ==
    IF input.layout = "Interleaved"
    THEN "lame_encode_buffer_interleaved"
    ELSE "lame_encode_buffer"

Panic == [kind |-> "Panic", val |-> 0]

\* EncoderInput::encode: the native call, arguments (sample count, capacity)
\* cast to c_int; a failed debug assertion panics before the call.
EncoderInput_encode(c, input, output_len) ==
    IF debug_assertions /\ ~debug_assert_holds(input)
    THEN [panic |-> TRUE, calls |-> <<>>]
    ELSE [panic |-> FALSE,
          calls |-> <<NCall(EncodeFn(input), c,
                            <<as_c_int(samples_num(input)), as_c_int(output_len)>>)>>]

FlushKinds == {"FlushGap", "FlushNoGap"}

\* EncoderFlush::flush for FlushGap and FlushNoGap.
EncoderFlush_flush(c, kind, output_len) ==
    <<NCall(IF kind = "FlushGap" THEN "lame_encode_flush" ELSE "lame_encode_flush_nogap",
            c, <<as_c_int(output_len)>>)>>

(***************************************************************************)
(* Encoder                                                                 *)
(***************************************************************************)
\* The getters of the Encoder and the native entry point each one calls.
Getters == {"sample_rate", "num_channels"}

\* Faulty variant: sample_rate writes the parameter instead of reading it.
GetterFn_writes(g) ==
    IF g = "sample_rate" THEN "lame_set_in_samplerate" ELSE "lame_get_num_channels"

GetterFn(g) ==
    IF g = "sample_rate" THEN "lame_get_in_samplerate" ELSE "lame_get_num_channels"

\* What the native getters may return.
GetterVals == {1, 2}

\* Encoder::sample_rate() / Encoder::num_channels(): one native call, the
\* returned c_int cast to u32 / u8.
Encoder_get(c, g, v) ==
    [calls  |-> <<NCall(GetterFn(g), c, <<>>)>>,
     result |-> Ok(IF g = "sample_rate" THEN v % Pow2(CIntBits) ELSE v % Pow2(8))]

Get(c) ==
    /\ c \in encoders
    /\ \E g \in Getters, v \in GetterVals :
          LET r == Encoder_get(c, g, v)
          IN  /\ Issue(r.calls)
              /\ Done(g, c, <<>>, v, r.result)
    /\ UNCHANGED <<failed, flush_state, allocated, builders, encoders, debug_assertions,
                   vecVars, sizeVars, threadVars>>

\* Encoder::encode(input, output): code is the status the native call returns.
Encoder_encode(c, input, output_len, code) ==
    LET r == EncoderInput_encode(c, input, output_len)
    IN  [calls  |-> r.calls,
         result |-> IF r.panic THEN Panic ELSE EncodeError_from_c_int(code)]

\* Faulty variant: the flush consumes the Encoder and releases its context.
Encoder_flush_consumes(c, kind, output_len, code) ==
    [calls  |-> EncoderFlush_flush(c, kind, output_len) \o Drop_Encoder(c),
     result |-> EncodeError_from_c_int(code)]

\* Encoder::flush::<T>(output)
Encoder_flush(c, kind, output_len, code) ==
    [calls  |-> EncoderFlush_flush(c, kind, output_len),
     result |-> EncodeError_from_c_int(code)]

\* Faulty variant: set_len(written), the original length is forgotten.
set_len_after_nobase(original_len, result) ==
    IF result.kind = "Ok" THEN result.val ELSE original_len

\* The Ok / Err arms of encode_to_vec and flush_to_vec: the vector's new len().
set_len_after(original_len, result) ==
    IF result.kind = "Ok"
    THEN saturating_add(original_len, result.val)
    ELSE original_len

\* Faulty variant: the whole capacity is offered, not the spare capacity.
Encoder_encode_to_vec_whole(c, input, len, cap, code) ==
    LET original_len == len
        r == Encoder_encode(c, input, cap, code)
    IN  [calls |-> r.calls, result |-> r.result,
         len |-> set_len_after(original_len, r.result)]

\* Encoder::encode_to_vec(input, output) on a vector of the given len and
\* capacity: encode into spare_capacity_mut(), set_len on success.
Encoder_encode_to_vec(c, input, len, cap, code) ==
    LET original_len == len
        r == Encoder_encode(c, input, cap - len, code)
    IN  [calls |-> r.calls, result |-> r.result,
         len |-> set_len_after(original_len, r.result)]

\* Encoder::flush_to_vec::<T>(output)
Encoder_flush_to_vec(c, kind, len, cap, code) ==
    LET original_len == len
        r == Encoder_flush(c, kind, cap - len, code)
    IN  [calls |-> r.calls, result |-> r.result,
         len |-> set_len_after(original_len, r.result)]

\* Lengths of the output slices handed to encode and flush.
OutLens == {0, 2, ISIZE_MAX}

\* Ghost bookkeeping: an encode (performed: its native call was issued) or a
\* flush was made on the Encoder of context c.
AfterEncode(c, performed) ==
    flush_state' = [flush_state EXCEPT
                       ![c] = IF @ = "fresh" \/ ~performed THEN @ ELSE "reused"]
AfterFlush(c) ==
    flush_state' = [flush_state EXCEPT
                       ![c] = IF @ = "fresh" THEN "flushed" ELSE "reused"]

Encode(c, inputs, lens, codes) ==
    /\ c \in encoders
    /\ \E input \in inputs, n \in lens, code \in codes :
          LET r == Encoder_encode(c, input, n, code)
          IN  /\ Issue(r.calls)
              /\ Done("encode", c, [pcm |-> input, output_len |-> n],
                      IF r.result = Panic THEN 0 ELSE code, r.result)
              /\ AfterEncode(c, r.calls # <<>>)
    /\ UNCHANGED <<failed, allocated, builders, encoders, debug_assertions, vecVars, sizeVars, threadVars>>

Flush(c, lens, codes) ==
    /\ c \in encoders
    /\ \E kind \in FlushKinds, n \in lens, code \in codes :
          LET r == Encoder_flush(c, kind, n, code)
          IN  /\ Issue(r.calls)
              /\ Done("flush", c, [kind |-> kind, output_len |-> n], code, r.result)
    /\ AfterFlush(c)
    /\ UNCHANGED <<failed, allocated, builders, encoders, debug_assertions, vecVars, sizeVars, threadVars>>

\* The result's contribution to the sum of the Ok(written) values returned.
Written(result) == IF result.kind = "Ok" THEN result.val ELSE 0

\* The native call in cs, if there is one, returned no more than the capacity
\* it was passed (its last argument).
Honest(cs, code) ==
    cs = <<>> \/ code <= cs[1].args[Len(cs[1].args)]

\* The *_to_vec calls are made on a vector that satisfies Vec's invariant
\* len <= capacity; the model stops using a vector that a native call
\* reporting more bytes than it was offered has pushed past its capacity.
EncodeToVec(c, inputs, codes) ==
    /\ c \in encoders
    /\ vec_ops < MaxVecOps
    /\ vec_len <= vec_cap
    /\ \E input \in inputs, code \in codes :
          LET r == Encoder_encode_to_vec(c, input, vec_len, vec_cap, code)
          IN  /\ Issue(r.calls)
              /\ Done("encode_to_vec", c, [pcm |-> input, output_len |-> vec_cap - vec_len],
                      IF r.result = Panic THEN 0 ELSE code, r.result)
              /\ vec_len' = r.len
              /\ vec_sum' = vec_sum + Written(r.result)
              /\ vec_honest' = (vec_honest /\ Honest(r.calls, code))
              /\ AfterEncode(c, r.calls # <<>>)
    /\ vec_ops' = vec_ops + 1
    /\ UNCHANGED <<failed, allocated, builders, encoders, debug_assertions,
                   vec_cap, vec_init_len, sizeVars, threadVars>>

FlushToVec(c, codes) ==
    /\ c \in encoders
    /\ vec_ops < MaxVecOps
    /\ vec_len <= vec_cap
    /\ \E kind \in FlushKinds, code \in codes :
          LET r == Encoder_flush_to_vec(c, kind, vec_len, vec_cap, code)
          IN  /\ Issue(r.calls)
              /\ Done("flush_to_vec", c, [kind |-> kind, output_len |-> vec_cap - vec_len],
                      code, r.result)
              /\ vec_len' = r.len
              /\ vec_sum' = vec_sum + Written(r.result)
              /\ vec_honest' = (vec_honest /\ Honest(r.calls, code))
    /\ AfterFlush(c)
    /\ vec_ops' = vec_ops + 1
    /\ UNCHANGED <<failed, allocated, builders, encoders, debug_assertions,
                   vec_cap, vec_init_len, sizeVars, threadVars>>

(***************************************************************************)
(* Threads sharing an Encoder                                              *)
(***************************************************************************)
Threads == 1 .. MaxThreads

\* Faulty variant: encode and flush take the Encoder by shared reference.
Receiver_shared(name) == "&self"

\* The receiver each method of Encoder declares.
Receiver(name) ==
    IF name \in Getters THEN "&self" ELSE "&mut self"

Idle == [name |-> "idle", ctx |-> NULL, fn |-> "none", input |-> <<>>]

InitThreads ==
    /\ borrow = [t \in Threads |-> [c \in Ctx |-> "none"]]
    /\ running = [t \in Threads |-> Idle]

\* Encoder is Send and Sync: any thread may come to hold a reference to it.
\* References follow the borrow rules: a `&mut` excludes every other
\* reference, any number of `&` may coexist.
Borrow(t, c) ==
    /\ c \in encoders
    /\ borrow[t][c] = "none"
    /\ \E kind \in {"&self", "&mut self"} :
          /\ \A u \in Threads :
                /\ borrow[u][c] # "&mut self"
                /\ kind = "&mut self" => borrow[u][c] = "none"
          /\ borrow' = [borrow EXCEPT ![t][c] = kind]
    /\ UNCHANGED <<debug_assertions, lifeVars, op, calls, vecVars, sample_number, size,
                   running>>

\* The thread's reference ends; not while a method called through it runs.
Release(t, c) ==
    /\ borrow[t][c] # "none"
    /\ running[t].name = "idle"
    /\ borrow' = [borrow EXCEPT ![t][c] = "none"]
    /\ UNCHANGED <<debug_assertions, lifeVars, op, calls, vecVars, sample_number, size,
                   running>>

\* A reference of kind have lets its holder call a method that takes need.
Permits(have, need) == have = "&mut self" \/ have = need

\* Thread t enters a method of the Encoder of context c: the method issues
\* its native call, which is then in progress.
Enter(t, c, name, input, cs) ==
    /\ c \in encoders
    /\ running[t].name = "idle"
    /\ Permits(borrow[t][c], Receiver(name))
    /\ Issue(cs)
    /\ running' = [running EXCEPT
                      ![t] = [name |-> name, ctx |-> c, fn |-> cs[1].fn, input |-> input]]
    /\ UNCHANGED <<debug_assertions, allocated, builders, encoders, failed, flush_state,
                   op, vecVars, sample_number, size, borrow>>

ThreadEncode(t, c, inputs, lens) ==
    \E input \in inputs, n \in lens :
        /\ ~EncoderInput_encode(c, input, n).panic
        /\ Enter(t, c, "encode", [thread |-> t, pcm |-> input, output_len |-> n],
                 EncoderInput_encode(c, input, n).calls)

ThreadFlush(t, c, lens) ==
    \E kind \in FlushKinds, n \in lens :
        Enter(t, c, "flush", [thread |-> t, kind |-> kind, output_len |-> n],
              EncoderFlush_flush(c, kind, n))

ThreadGet(t, c) ==
    \E g \in Getters :
        Enter(t, c, g, [thread |-> t], Encoder_get(c, g, 0).calls)

\* The native call of thread t returns and the method returns its result.
Return(t, codes) ==
    /\ running[t].name # "idle"
    /\ LET now == running[t]
       IN  /\ \E code \in codes :
                 Done(now.name, now.ctx, now.input, code,
                      IF now.name \in Getters
                      THEN Encoder_get(now.ctx, now.name, code).result
                      ELSE EncodeError_from_c_int(code))
           /\ IF now.name = "encode" THEN AfterEncode(now.ctx, TRUE)
              ELSE IF now.name = "flush" THEN AfterFlush(now.ctx)
              ELSE UNCHANGED flush_state
    /\ running' = [running EXCEPT ![t] = Idle]
    /\ UNCHANGED <<debug_assertions, allocated, builders, encoders, closes, failed,
                   calls, vecVars, sample_number, size, borrow>>

(***************************************************************************)
(* Specifications                                                          *)
(***************************************************************************)
NoOp == [name |-> "none", ctx |-> NULL, input |-> <<>>, code |-> 0, result |-> NoResult]

\* No context exists yet.
InitLife ==
    /\ allocated = {}
    /\ builders = {}
    /\ encoders = {}
    /\ closes = [x \in Ctx |-> 0]
    /\ failed = {}
    /\ flush_state = [x \in Ctx |-> "fresh"]
    /\ op = NoOp
    /\ calls = <<>>

\* The caller's output vector is Vec::new().
InitVecEmpty ==
    /\ vec_len = 0
    /\ vec_cap = 0
    /\ vec_init_len = 0
    /\ vec_sum = 0
    /\ vec_ops = 0
    /\ vec_honest = TRUE

InitSizeIdle ==
    /\ sample_number = 0
    /\ size = -1
    /\ InitThreads

(* Spec: the handle lifecycle.  Every operation of the layer, on up to      *)
(* MaxCtx contexts, with one representative input per outcome.              *)
LifeBuildCodes == {-1, 0, 1}
LifeSetterVals == {1}
LifeEncodeCodes == {-1, 0, 2}
LifeTags ==
    {t \in Id3Tag : t.title = t.artist /\ t.artist = t.album /\ t.album = t.year
                    /\ t.year = t.comment /\ t.title # 1}
LifeInputs ==
    {p \in PcmInputs : p.left = 1 /\ p.right <= 1}
LifeOutLens == {2}
\* The caller's vector is empty and without capacity: nothing can be written.
LifeVecCodes == {-1, 0}

Init ==
    /\ InitLife
    /\ debug_assertions \in BOOLEAN
    /\ InitVecEmpty
    /\ InitSizeIdle

Next ==
    \/ New
    \/ DefaultEncoder(LifeBuildCodes)
    \/ \E c \in Ctx :
          \/ Set(c, LifeSetterVals, LifeBuildCodes)
          \/ With(c, LifeSetterVals, LifeBuildCodes)
          \/ SetId3Tag(c, LifeTags)
          \/ WithId3Tag(c, LifeTags)
          \/ Build(c, LifeBuildCodes)
          \/ DropBuilder(c)
          \/ Encode(c, LifeInputs, LifeOutLens, LifeEncodeCodes)
          \/ EncodeToVec(c, LifeInputs, LifeVecCodes)
          \/ Flush(c, LifeOutLens, LifeEncodeCodes)
          \/ FlushToVec(c, LifeVecCodes)
          \/ Get(c)
          \/ DropEncoder(c)

Spec == Init /\ [][Next]_vars

(* SpecTag: the tag writer.  A Builder exists (Builder::new returned        *)
(* context 1) and is given every tag of Id3Tag, by set_id3_tag and by       *)
(* with_id3_tag.                                                            *)
InitTag ==
    /\ allocated = {1}
    /\ builders = {1}
    /\ encoders = {}
    /\ closes = [x \in Ctx |-> 0]
    /\ failed = {}
    /\ flush_state = [x \in Ctx |-> "fresh"]
    /\ op = [name |-> "new", ctx |-> 1, input |-> <<>>, code |-> 0, result |-> Ok(0)]
    /\ calls = <<NCall("lame_init", 1, <<>>)>>
    /\ debug_assertions = FALSE
    /\ InitVecEmpty
    /\ InitSizeIdle

NextTag ==
    \E c \in Ctx :
        \/ SetId3Tag(c, Id3Tag)
        \/ WithId3Tag(c, Id3Tag)

SpecTag == InitTag /\ [][NextTag]_vars

(* SpecVec: encode_to_vec and flush_to_vec on one output vector, with every *)
(* status of EncodeCodes and inputs that pass and fail the debug            *)
(* assertions.                                                              *)
\* (len, capacity) of the output vector the caller brings.
VecShapes ==
    {<<0, 0>>, <<1, 3>>, <<ISIZE_MAX - 1, ISIZE_MAX>>,
     <<0, Pow2(CIntBits) + 2>>}

InitVec ==
    /\ InitLife
    /\ debug_assertions \in BOOLEAN
    /\ \E shape \in VecShapes :
          /\ vec_len = shape[1]
          /\ vec_cap = shape[2]
          /\ vec_init_len = shape[1]
    /\ vec_sum = 0
    /\ vec_ops = 0
    /\ vec_honest = TRUE
    /\ InitSizeIdle

NextVec ==
    \/ New
    \/ \E c \in Ctx :
          \/ Build(c, {0})
          \/ EncodeToVec(c, LifeInputs, EncodeCodes)
          \/ FlushToVec(c, EncodeCodes)

SpecVec == InitVec /\ [][NextVec]_vars

(* SpecSize: the sizing helper applied to every sample count a usize holds. *)
InitSize ==
    /\ InitLife
    /\ debug_assertions = FALSE
    /\ InitVecEmpty
    /\ sample_number \in 0 .. USIZE_MAX
    /\ size = -1
    /\ InitThreads

CallSize ==
    /\ size = -1
    /\ size' = max_required_buffer_size(sample_number)
    /\ UNCHANGED <<debug_assertions, lifeVars, op, calls, vecVars, sample_number, threadVars>>

NextSize == CallSize

SpecSize == InitSize /\ [][NextSize]_vars

(* SpecWith: the in-place and the builder-pattern form of every setter and   *)
(* of the tag writer, on one Builder, with every status of BuildCodes.       *)
NextWith ==
    \E c \in Ctx :
        \/ Set(c, SetterVals, BuildCodes)
        \/ With(c, SetterVals, BuildCodes)
        \/ SetId3Tag(c, LifeTags)
        \/ WithId3Tag(c, LifeTags)

SpecWith == InitTag /\ [][NextWith]_vars

(* SpecEncode: encode and flush on a built Encoder, in both build profiles,  *)
(* with slices and output buffers on both sides of c_int::MAX.              *)
InitEncode ==
    /\ allocated = {1}
    /\ builders = {}
    /\ encoders = {1}
    /\ closes = [x \in Ctx |-> 0]
    /\ failed = {}
    /\ flush_state = [x \in Ctx |-> "fresh"]
    /\ op = [name |-> "build", ctx |-> 1, input |-> <<>>, code |-> 0, result |-> Ok(0)]
    /\ calls = <<NCall("lame_init_params", 1, <<>>)>>
    /\ debug_assertions \in BOOLEAN
    /\ InitVecEmpty
    /\ InitSizeIdle

NextEncode ==
    \E c \in Ctx :
        \/ Encode(c, WideInputs, OutLens, LifeEncodeCodes)
        \/ Flush(c, OutLens, LifeEncodeCodes)

SpecEncode == InitEncode /\ [][NextEncode]_vars

(* SpecThreads: the threads of a program share one built Encoder; each      *)
(* takes and gives up references to it and calls its methods, the native    *)
(* calls of different threads interleaving freely.                          *)
ThreadCodes == {-1, 1}

NextThreads ==
    \E t \in Threads :
        \/ \E c \in Ctx :
              \/ Borrow(t, c)
              \/ Release(t, c)
              \/ ThreadEncode(t, c, LifeInputs, LifeOutLens)
              \/ ThreadFlush(t, c, LifeOutLens)
              \/ ThreadGet(t, c)
        \/ Return(t, ThreadCodes)

SpecThreads == InitEncode /\ [][NextThreads]_vars

(* SpecCodes: the classification of native statuses.  A Builder exists; its *)
(* setters, build, and the encode and flush of the Encoder it becomes, are  *)
(* answered by the native library with every status of StatusCodes.         *)
NextCodes ==
    \E c \in Ctx :
        \/ Set(c, SetterVals, StatusCodes)
        \/ With(c, SetterVals, StatusCodes)
        \/ Build(c, StatusCodes)
        \/ Encode(c, LifeInputs, LifeOutLens, StatusCodes)
        \/ Flush(c, LifeOutLens, StatusCodes)

SpecCodes == InitTag /\ [][NextCodes]_vars

(***************************************************************************)
(* Properties                                                              *)
(***************************************************************************)
Owned(c) == c \in builders \/ c \in encoders

\* C1: on every context lame_init returned, lame_close has been issued exactly
\* once as soon as no handle owns the context, and not at all while a handle
\* still owns it; a context never allocated is never closed.
C1_ReleaseExactlyOnce ==
    \A c \in Ctx :
        /\ Owned(c) => c \in allocated /\ closes[c] = 0
        /\ (c \in allocated /\ ~Owned(c)) => closes[c] = 1
        /\ c \notin allocated => closes[c] = 0

\* Every context was allocated, built, used and dropped through its Encoder.
C1_Witness ==
    /\ allocated = Ctx
    /\ \A c \in Ctx : ~Owned(c) /\ closes[c] = 1
    /\ op.name = "drop_encoder"

\* C2: no context is owned by a Builder and an Encoder at once, and a build
\* whose lame_init_params returned a code >= 0 issued that one native call and
\* no lame_close, consumed the Builder and left the context owned by the
\* Encoder it returned.
C2_BuildSuccessMovesOwnership ==
    /\ \A c \in Ctx : ~(c \in builders /\ c \in encoders)
    /\ (op.name = "build" /\ op.code >= 0) =>
          /\ op.result.kind = "Ok"
          /\ op.ctx \in encoders
          /\ op.ctx \notin builders
          /\ calls = <<NCall("lame_init_params", op.ctx, <<>>)>>
          /\ closes[op.ctx] = 0

\* A build just succeeded on one context while a Builder of another is alive.
C2_Witness ==
    /\ op.name = "build"
    /\ op.code >= 0
    /\ op.ctx \in encoders
    /\ \E d \in Ctx : d # op.ctx /\ d \in builders

\* C3: a build whose lame_init_params returned a negative code returned an
\* error, produced no Encoder, consumed the Builder and issued lame_close once;
\* from then on the context has no handle and its release count stays at one.
C3_BuildFailureReleasesOnce ==
    /\ (op.name = "build" /\ op.code < 0) =>
          /\ op.result.kind \notin {"Ok", "None"}
          /\ op.ctx \in failed
          /\ calls = <<NCall("lame_init_params", op.ctx, <<>>),
                       NCall("lame_close", op.ctx, <<>>)>>
    /\ \A c \in failed : ~Owned(c) /\ closes[c] = 1

\* A build failed on one context and, later, another context's Encoder was
\* dropped.
C3_Witness ==
    /\ op.name = "drop_encoder"
    /\ \E c \in failed : c # op.ctx /\ closes[c] = 1

\* C4 (SpecVec): after any sequence of encode_to_vec / flush_to_vec calls the
\* vector's length is its initial length plus the sum of the Ok(written)
\* values returned: each successful call advanced it by exactly the count it
\* returned, each failed call left it alone.
C4_VecLenTracksWritten ==
    /\ vec_len = vec_init_len + vec_sum
    /\ (op.name \in {"encode_to_vec", "flush_to_vec"} /\ op.result.kind = "Ok") =>
          op.result.val = op.code

\* A call that wrote bytes was followed by a flush_to_vec that failed.
C4_Witness ==
    /\ op.name = "flush_to_vec"
    /\ op.result.kind = "BufferTooSmall"
    /\ vec_sum > 0
    /\ vec_len = vec_init_len + vec_sum

\* ceil(n / 4)
CeilQuarter(n) == (n + 3) \div 4

\* n + ceil(n/4) + 7200, computed without a width.
ExactSize(n) == n + CeilQuarter(n) + 7200

\* C5 (SpecSize): whenever n + ceil(n/4) + 7200 fits a usize,
\* max_required_buffer_size(n) returns exactly that.
C5_ExactWhenRepresentable ==
    (size # -1 /\ ExactSize(sample_number) <= USIZE_MAX) =>
        size = ExactSize(sample_number)

\* The function was applied to the largest representable case, whose sample
\* count is not a multiple of four.
C5_Witness ==
    /\ size # -1
    /\ sample_number % 4 # 0
    /\ ExactSize(sample_number) = USIZE_MAX
    /\ size = USIZE_MAX

\* C6 (SpecSize), as claimed: whenever n + ceil(n/4) + 7200 exceeds the largest
\* usize, max_required_buffer_size(n) returns the largest usize.
C6_SaturatesAtMax ==
    (size # -1 /\ ExactSize(sample_number) > USIZE_MAX) => size = USIZE_MAX

TagOps == {"set_id3_tag", "with_id3_tag"}
TextFields == {"title", "artist", "album", "year", "comment"}
TextSetterOf(f) == "id3tag_set_" \o f
TextSetters == {TextSetterOf(f) : f \in TextFields}
TagCallsOf(fn) == {i \in DOMAIN calls : calls[i].fn = fn}

\* C7 (SpecTag), as claimed: a set_id3_tag given album art above the ceiling
\* returns AlbumArtOverflow having issued no native call at all.
C7_OverflowBeforeAnyNativeCall ==
    (op.name = "set_id3_tag" /\ op.input.album_art > 131072) =>
        /\ op.result = Err("AlbumArtOverflow")
        /\ calls = <<>>

\* C8 (SpecTag): the tag call returns AlbumArtOverflow exactly when the album
\* art is longer than 131072 bytes and succeeds otherwise; art of exactly
\* 131072 bytes is handed to id3tag_set_albumart, and no id3tag_set_albumart
\* call ever carries a size above 131072.
C8_OverflowIffAboveCeiling ==
    op.name \in TagOps =>
        /\ op.result = Err("AlbumArtOverflow") <=> op.input.album_art > 131072
        /\ op.result.kind = "Ok" <=> op.input.album_art <= 131072
        /\ op.input.album_art \in 1 .. 131072 =>
              \E i \in TagCallsOf("id3tag_set_albumart") :
                  calls[i].args = <<op.input.album_art>>
        /\ \A i \in TagCallsOf("id3tag_set_albumart") : calls[i].args[1] <= 131072

\* Album art of exactly 131072 bytes was accepted and handed over.
C8_Witness ==
    /\ op.name = "set_id3_tag"
    /\ op.input.album_art = 131072
    /\ op.result.kind = "Ok"
    /\ TagCallsOf("id3tag_set_albumart") # {}

AllEmpty(t) ==
    /\ t.title = 0
    /\ t.artist = 0
    /\ t.album = 0
    /\ t.album_art = 0
    /\ t.year = 0
    /\ t.comment = 0

\* C9 (SpecTag): set_id3_tag with all six fields empty issues no native call
\* and returns Ok.
C9_EmptyTagNoNativeCalls ==
    (op.name = "set_id3_tag" /\ AllEmpty(op.input)) =>
        /\ calls = <<>>
        /\ op.result = Ok(0)

\* set_id3_tag was called with the empty tag.
C9_Witness ==
    /\ op.name = "set_id3_tag"
    /\ AllEmpty(op.input)
    /\ op.result.kind = "Ok"

\* min(250, L)
Truncated(L) == IF L <= 250 THEN L ELSE 250

\* C10 (SpecTag): the length of a text field never makes the tag call fail (it
\* fails only for album art above the ceiling, before any text field is
\* staged); in a call that succeeds every non-empty text field of length L
\* reaches its native setter once, with min(250, L) bytes copied and the zero
\* byte at index min(250, L), an empty field reaches none; and every staged
\* zero byte lies inside the 251-byte buffer.
C10_TextFieldsTruncated ==
    op.name \in TagOps =>
        /\ op.result.kind # "Ok" => op.input.album_art > 131072
        /\ op.result.kind = "Ok" =>
              \A f \in TextFields :
                  LET L == op.input[f]
                      at == TagCallsOf(TextSetterOf(f))
                  IN  IF L = 0
                      THEN at = {}
                      ELSE /\ Cardinality(at) = 1
                           /\ \A i \in at :
                                 calls[i].args = <<Truncated(L), Truncated(L)>>
        /\ \A i \in DOMAIN calls :
              calls[i].fn \in TextSetters =>
                  /\ calls[i].args[1] <= 250
                  /\ calls[i].args[2] < 251

\* All five text fields were longer than the cap and all were staged.
C10_Witness ==
    /\ op.name = "set_id3_tag"
    /\ op.result.kind = "Ok"
    /\ \A f \in TextFields : op.input[f] = 251
    /\ \A f \in TextFields :
          \E i \in TagCallsOf(TextSetterOf(f)) : calls[i].args = <<250, 250>>

(***************************************************************************)
(* Status classification                                                   *)
(***************************************************************************)
ConfigOps ==
    {"set_" \o s : s \in Setters} \cup {"with_" \o s : s \in Setters} \cup {"build"}

\* The documented meaning of the negative configuration statuses.
BuildErrorTable ==
    [c \in {-1, -10, -11, -12, -13} |->
        IF c = -1 THEN "Generic"
        ELSE IF c = -10 THEN "NoMem"
        ELSE IF c = -11 THEN "BadBRate"
        ELSE IF c = -12 THEN "BadSampleFreq"
        ELSE "InternalError"]

\* C11: every setter, with_ setter and build returns the classification of
\* the status its native call returned: success for a status >= 0, the named
\* error for -1, -10, -11, -12, -13, and Other carrying exactly the status for
\* every other negative status.
C11_BuildStatusClassified ==
    op.name \in ConfigOps =>
        /\ op.code \in StatusCodes
        /\ op.code >= 0 => op.result.kind = "Ok"
        /\ op.code \in DOMAIN BuildErrorTable =>
              op.result = [kind |-> BuildErrorTable[op.code], val |-> 0]
        /\ (op.code < 0 /\ op.code \notin DOMAIN BuildErrorTable) =>
              op.result = [kind |-> "Other", val |-> op.code]

\* build was answered -10 and returned NoMem.
C11_Witness ==
    /\ op.name = "build"
    /\ op.code = -10
    /\ op.result.kind = "NoMem"
    /\ calls[1].fn = "lame_init_params"

\* The documented meaning of the negative encode statuses.
EncodeErrorTable ==
    [c \in {-1, -2, -3, -4} |->
        IF c = -1 THEN "BufferTooSmall"
        ELSE IF c = -2 THEN "NoMem"
        ELSE IF c = -3 THEN "InvalidState"
        ELSE "PsychoAcoustic"]

\* C12: every encode and flush that reaches its native call returns the
\* classification of the status that call returned: Ok carrying the status as
\* the byte count for a status >= 0, the named error for -1, -2, -3, -4, and
\* Other carrying exactly the status for every other negative status.
C12_EncodeStatusClassified ==
    (op.name \in {"encode", "flush"} /\ calls # <<>>) =>
        /\ op.code \in StatusCodes
        /\ op.code >= 0 => op.result = [kind |-> "Ok", val |-> op.code]
        /\ op.code \in DOMAIN EncodeErrorTable =>
              op.result = [kind |-> EncodeErrorTable[op.code], val |-> 0]
        /\ (op.code < 0 /\ op.code \notin DOMAIN EncodeErrorTable) =>
              op.result = [kind |-> "Other", val |-> op.code]

\* A flush was answered 0 and returned Ok(0).
C12_Witness ==
    /\ op.name = "flush"
    /\ op.code = 0
    /\ op.result = [kind |-> "Ok", val |-> 0]
    /\ calls[1].fn \in {"lame_encode_flush", "lame_encode_flush_nogap"}

(***************************************************************************)
(* Arguments of the native encode and flush calls                          *)
(***************************************************************************)
\* The number of samples per channel an input holds for the encoder.
SamplesHeld(pcm) ==
    IF pcm.layout = "Mono" THEN pcm.left
    ELSE IF pcm.layout = "Dual"
         THEN (IF pcm.left <= pcm.right THEN pcm.left ELSE pcm.right)
         ELSE (pcm.left - (pcm.left % 2)) \div 2

\* C13: the sample count an encode passes to its native call is the slice
\* length for MonoPcm, the smaller of the two lengths for DualPcm and half the
\* length rounded down for InterleavedPcm, for every slice length; it is
\* never more than the input holds.
C13_SampleCountPassed ==
    (op.name = "encode" /\ calls # <<>>) =>
        /\ calls[1].args[1] = SamplesHeld(op.input.pcm)
        /\ calls[1].args[1] <= SamplesHeld(op.input.pcm)

\* The input a debug assertion rejects: channels of different lengths, or an
\* odd number of interleaved samples.
Malformed(pcm) ==
    \/ pcm.layout = "Dual" /\ pcm.left # pcm.right
    \/ pcm.layout = "Interleaved" /\ pcm.left % 2 = 1

\* C14: an encode of a DualPcm with channels of different lengths or of an
\* InterleavedPcm of odd length panics before any native call when debug
\* assertions are compiled in; when they are not, it issues its one native
\* encode call with the shortened sample count (the smaller length, half the
\* length rounded down), converted to c_int.
C14_AssertBeforeNativeCall ==
    (op.name = "encode" /\ Malformed(op.input.pcm)) =>
        IF debug_assertions
        THEN /\ op.result = Panic
             /\ calls = <<>>
        ELSE /\ op.result # Panic
             /\ Len(calls) = 1
             /\ calls[1].fn = EncodeFn(op.input.pcm)
             /\ calls[1].ctx = op.ctx
             /\ calls[1].args[1] = as_c_int(SamplesHeld(op.input.pcm))

\* Debug build: a DualPcm of 2 and 1 samples panicked without a native call.
C14_Witness ==
    /\ debug_assertions
    /\ op.name = "encode"
    /\ op.input.pcm = [layout |-> "Dual", left |-> 2, right |-> 1]
    /\ op.result = Panic
    /\ calls = <<>>

\* C20: every encode and flush passes, as the capacity of the destination,
\* exactly the length n of the output buffer it was given, for every n a
\* usize can hold.
C20_CapacityPassedIsLength ==
    (op.name \in {"encode", "flush"} /\ calls # <<>>) =>
        calls[1].args[Len(calls[1].args)] = op.input.output_len

(***************************************************************************)
(* Handle construction and the Encoder's operations                        *)
(***************************************************************************)
\* C15: Builder::new (and encoder(), which starts with it) issues lame_init;
\* when lame_init returns null, no further native call is issued, no handle
\* comes into being, nothing is released and the caller gets None (NoMem from
\* encoder()); when it returns a context, that context is a fresh one and
\* Builder::new returns the Builder that owns exactly it.
C15_NewOwnsContextOrNothing ==
    [][op'.name \in {"new", "encoder"} =>
          /\ calls'[1] = NCall("lame_init", op'.ctx, <<>>)
          /\ IF op'.ctx = NULL
             THEN /\ Len(calls') = 1
                  /\ op'.result = IF op'.name = "new" THEN NoResult ELSE Err("NoMem")
                  /\ builders' = builders
                  /\ encoders' = encoders
                  /\ closes' = closes
             ELSE /\ op'.ctx \notin allocated
                  /\ op'.name = "new" =>
                        /\ Len(calls') = 1
                        /\ op'.result.kind = "Ok"
                        /\ builders' = builders \cup {op'.ctx}
                        /\ encoders' = encoders
                        /\ closes' = closes]_vars

\* lame_init returned null to Builder::new while another Builder was alive.
C15_Witness ==
    /\ op.name = "new"
    /\ op.ctx = NULL
    /\ op.result = NoResult
    /\ calls = <<NCall("lame_init", NULL, <<>>)>>
    /\ builders # {}

\* C16 as stated: on no Encoder is an encode or a flush performed after a
\* flush.
C16_FlushIsTerminal ==
    \A c \in Ctx : flush_state[c] # "reused"

EncoderIO == {"encode", "encode_to_vec", "flush", "flush_to_vec"}
EncodeFlushFns ==
    {"lame_encode_buffer", "lame_encode_buffer_interleaved",
     "lame_encode_flush", "lame_encode_flush_nogap"}

\* C16, amended: the layer accepts encode and flush calls on an Encoder in
\* any order.  A flush does not end the handle: the Encoder flushed stays
\* owned and unreleased until it is dropped, and every encode or flush made
\* on it, before or after a flush, issues its one native call on the same
\* context and returns a result for the status of that call.
C16_FlushLeavesEncoderUsable ==
    /\ \A c \in Ctx :
          flush_state[c] # "fresh" => c \in encoders /\ closes[c] = 0
    /\ (op.name \in EncoderIO /\ op.result # Panic) =>
          /\ Len(calls) = 1
          /\ calls[1].fn \in EncodeFlushFns
          /\ calls[1].ctx = op.ctx
          /\ op.result.kind = "Ok" <=> op.code >= 0

\* An encode succeeded on an Encoder that had been flushed before.
C16_Witness ==
    /\ op.name = "encode"
    /\ op.result.kind = "Ok"
    /\ flush_state[op.ctx] = "reused"
    /\ op.ctx \in encoders

\* Native calls that set a parameter, write tag data or commit the
\* parameters.
ConfigFns ==
    {SetterFn(s) : s \in Setters}
        \cup {"id3tag_init", "id3tag_add_v2", "id3tag_set_albumart"}
        \cup {"id3tag_set_" \o f : f \in {"title", "artist", "album", "year", "comment"}}
        \cup {"lame_init_params"}

EncoderOps ==
    {"sample_rate", "num_channels", "encode", "encode_to_vec", "flush",
     "flush_to_vec", "drop_encoder"}

\* C17: a parameter-setter, tag or commit-parameters native call is never
\* issued by an operation of the Encoder, and never on a context that an
\* Encoder owns when the operation starts: every such call on a context
\* comes before the end of its successful build.
C17_EncoderParametersImmutable ==
    [][\A i \in DOMAIN calls' :
          calls'[i].fn \in ConfigFns =>
              /\ op'.name \notin EncoderOps
              /\ calls'[i].ctx \notin encoders]_vars

\* sample_rate() read the parameter of a built Encoder.
C17_Witness ==
    /\ op.name = "sample_rate"
    /\ op.ctx \in encoders
    /\ calls = <<NCall("lame_get_in_samplerate", op.ctx, <<>>)>>

(***************************************************************************)
(* Statuses and order of the native tag calls                              *)
(***************************************************************************)
\* C18: no operation returns success when a native call it issued reported
\* a failure (a negative status): the setters, build, encode and flush, and
\* set_id3_tag with the native tag calls it issues, id3tag_set_albumart
\* among them.
C18_NoErrorSwallowed ==
    (op.name \in ConfigOps \cup TagOps \cup EncoderIO /\ op.code < 0) =>
        op.result.kind # "Ok"

\* Position of a text setter in a given order of the five fields.
RankIn(order, fn) ==
    CHOOSE k \in DOMAIN order : "id3tag_set_" \o order[k] = fn

InOrder(order) ==
    /\ \A i, j \in DOMAIN calls :
          (i < j /\ calls[i].fn \in TextSetters /\ calls[j].fn \in TextSetters) =>
              RankIn(order, calls[i].fn) < RankIn(order, calls[j].fn)
    /\ \A i \in DOMAIN calls :
          calls[i].fn \in TextSetters =>
              /\ i > 2
              /\ calls[1].fn = "id3tag_init"
              /\ calls[2].fn = "id3tag_add_v2"

\* C19 as stated: within one set_id3_tag call the native text setters are
\* invoked in the order title, artist, album, year, comment, each after
\* id3tag_init and id3tag_add_v2.
C19_TextSettersInDeclaredOrder ==
    op.name \in TagOps => InOrder(<<"title", "artist", "album", "year", "comment">>)

\* C19, amended: within one set_id3_tag call the native text setters of the
\* non-empty fields are invoked in the order title, album, artist, year,
\* comment, each after id3tag_init and id3tag_add_v2.
C19_TextSettersInCodeOrder ==
    op.name \in TagOps => InOrder(<<"title", "album", "artist", "year", "comment">>)

\* All five text fields were set: album was staged before artist.
C19_Witness ==
    /\ op.name = "set_id3_tag"
    /\ op.result.kind = "Ok"
    /\ \A f \in TextFields : op.input[f] # 0
    /\ \E i, j \in DOMAIN calls :
          /\ i < j
          /\ calls[i].fn = "id3tag_set_album"
          /\ calls[j].fn = "id3tag_set_artist"

(***************************************************************************)
(* Builder-pattern setters                                                 *)
(***************************************************************************)
WithOps == {"with_" \o s : s \in Setters}
SetterOf(name) == CHOOSE s \in Setters : name = "with_" \o s

\* The last operation, a with_ form, did what the set_ form r does, and then
\* either kept the Builder or released it once.
WithMatches(r) ==
    /\ op.result = r.result
    /\ IF r.result.kind = "Ok"
       THEN /\ calls = r.calls
            /\ op.ctx \in builders
            /\ closes[op.ctx] = 0
       ELSE /\ calls = r.calls \o <<NCall("lame_close", op.ctx, <<>>)>>
            /\ op.ctx \notin builders
            /\ closes[op.ctx] = 1

\* C21: with_X(v), for each of the eight parameters and for the tag, issues
\* the native calls of set_X(v) with the same arguments; when set_X(v)
\* succeeds it returns the Builder, still owning the context, nothing
\* released; when set_X(v) fails it returns that error and the context of the
\* Builder it consumed is released exactly once.
C21_WithEquivalentToSet ==
    /\ op.name \in WithOps =>
          WithMatches(Builder_set(op.ctx, SetterOf(op.name), op.input[1], op.code))
    /\ op.name = "with_id3_tag" =>
          WithMatches(Builder_set_id3_tag(op.ctx, op.input))

\* with_brate was answered BadBRate and the Builder's context was released.
C21_Witness ==
    /\ op.name = "with_brate"
    /\ op.code = -11
    /\ op.result.kind = "BadBRate"
    /\ closes[op.ctx] = 1
    /\ op.ctx \notin builders

(***************************************************************************)
(* Concurrency                                                             *)
(***************************************************************************)
\* Thread t is inside a native encode or flush call on context c.
InNativeEncode(t, c) ==
    /\ running[t].name # "idle"
    /\ running[t].ctx = c
    /\ running[t].fn \in EncodeFlushFns

\* C22: in every interleaving of the threads that use one Encoder, no two
\* native encode or flush calls on its context are in progress at the same
\* time.
C22_NativeEncodeCallsSequential ==
    \A c \in Ctx : \A t, u \in Threads :
        (InNativeEncode(t, c) /\ InNativeEncode(u, c)) => t = u

\* Thread 1 is inside a native encode call on the context on which a flush
\* made by thread 2 has returned.
C22_Witness ==
    /\ InNativeEncode(1, op.ctx)
    /\ op.name = "flush"
    /\ op.input.thread = 2
    /\ borrow[1][op.ctx] = "&mut self"

(***************************************************************************)
(* The output vector's length and capacity                                 *)
(***************************************************************************)
\* C23: as long as every native encode/flush call made by encode_to_vec and
\* flush_to_vec has returned no more than the destination capacity it was
\* passed, the vector's length does not exceed its capacity, and it is its
\* initial length plus the bytes written.
C23_LenWithinCapacity ==
    vec_honest =>
        /\ vec_len <= vec_cap
        /\ vec_len = vec_init_len + vec_sum

\* Two calls filled the spare capacity of the vector to the last byte.
C23_Witness ==
    /\ vec_honest
    /\ vec_ops = 2
    /\ vec_len = vec_cap
    /\ vec_len > vec_init_len
    /\ op.name = "flush_to_vec"
    /\ op.result.kind = "Ok"

=============================================================================
